---------------------------- MODULE Spec2Model ----------------------------
(***************************************************************************)
(* A model of awslp/helpers.py: the LastPass login protocol, the PBKDF2    *)
(* derivation, the form scraper, the SAML role extraction and the role     *)
(* prompt.  helpers.py uses f-strings, so it runs under Python 3 only and  *)
(* every operator below follows Python 3 semantics.                        *)
(*                                                                         *)
(* A call's result is a record: [kind |-> "ok", val |-> v] for a normal    *)
(* return and [kind |-> <exception class>, ...] for a raised exception;    *)
(* [kind |-> "none"] stands for "not called yet".                          *)
(***************************************************************************)
EXTENDS Integers, Sequences, FiniteSets, TLC

VARIABLES
    pb_args,    \* pbkdf2: the arguments of the call
    pb_out,     \* pbkdf2: the result of the call
    html,       \* extract_form: the page, as a sequence of attribute tokens
    form,       \* extract_form: the result of the call
    assertion,  \* get_saml_aws_roles: the decoded assertion
    roles_out,  \* get_saml_aws_roles: the result of the call
    roles,      \* prompt_for_role: the argument
    pr,         \* prompt_for_role: the frame (pc, choice, printed, reads, result)
    lg,         \* lastpass_login: the caller's invocations and the current frame
    wire,       \* lastpass_login: every request posted on the session, in order
    response,   \* lastpass_login: the answer of login.php
    outcome     \* lastpass_login: how the call ends on that answer

pbVars == <<pb_args, pb_out>>
formVars == <<html, form>>
samlVars == <<assertion, roles_out>>
promptVars == <<roles, pr>>
loginVars == <<lg, wire>>
respVars == <<response, outcome>>
vars == <<pbVars, formVars, samlVars, promptVars, loginVars, respVars>>

None == [kind |-> "none"]
Ok(v) == [kind |-> "ok", val |-> v]
Raise(exc) == [kind |-> exc]

-----------------------------------------------------------------------------
(* Values of the variables of the components a specification leaves alone   *)

IdlePbkdf2 ==
    /\ pb_args = [password |-> <<>>, salt |-> <<>>, rounds |-> 0, length |-> 0]
    /\ pb_out = None
IdleForm == html = <<>> /\ form = None
IdleSaml == assertion = [wellformed |-> FALSE, nodes |-> <<>>] /\ roles_out = None
IdlePrompt ==
    /\ roles = <<>>
    /\ pr = [pc |-> "idle", choice |-> 0, printed |-> 0, reads |-> 0, result |-> None]
IdleLogin == lg = [pc |-> "idle"] /\ wire = <<>>
IdleResponse ==
    /\ response = [status |-> 0, wellformed |-> FALSE, children |-> <<>>]
    /\ outcome = None

-----------------------------------------------------------------------------
(* Generic helpers                                                          *)

RECURSIVE SumSeq(_)
SumSeq(s) == IF s = <<>> THEN 0 ELSE Head(s) + SumSeq(Tail(s))

Min(a, b) == IF a <= b THEN a ELSE b

\* s[0:n] of Python for n >= 0: at most the first n elements
Take(s, n) == SubSeq(s, 1, Min(Len(s), n))

\* every sequence over S of length 0..n
SeqsUpTo(S, n) == UNION {[1..k -> S] : k \in 0..n}

-----------------------------------------------------------------------------
(* Python's int(str)                                                        *)

Digits == <<"0", "1", "2", "3", "4", "5", "6", "7", "8", "9">>
IsDigit(c) == \E d \in 1..10 : Digits[d] = c
DigitVal(c) == (CHOOSE d \in 1..10 : Digits[d] = c) - 1

RECURSIVE LStrip(_)
LStrip(s) == IF s # <<>> /\ Head(s) = " " THEN LStrip(Tail(s)) ELSE s

RECURSIVE RStrip(_)
RStrip(s) ==
    IF s # <<>> /\ s[Len(s)] = " " THEN RStrip(SubSeq(s, 1, Len(s) - 1)) ELSE s

RECURSIVE DigitsVal(_)
DigitsVal(s) ==
    IF s = <<>> THEN 0
    ELSE 10 * DigitsVal(SubSeq(s, 1, Len(s) - 1)) + DigitVal(s[Len(s)])

\* int(text): surrounding whitespace is stripped, one sign is allowed, and
\* what is left must be a non-empty run of decimal digits; anything else
\* raises ValueError.  text is a sequence of one-character strings.
PyInt(text) ==
    LET t == RStrip(LStrip(text))
        signed == t # <<>> /\ Head(t) \in {"-", "+"}
        body == IF signed THEN Tail(t) ELSE t
    IN  IF body # <<>> /\ \A i \in 1..Len(body) : IsDigit(body[i])
        THEN Ok(IF signed /\ Head(t) = "-" THEN 0 - DigitsVal(body)
                ELSE DigitsVal(body))
        ELSE Raise("ValueError")

-----------------------------------------------------------------------------
(* pbkdf2 and lastpass_login_hash (helpers.py 49-82)                        *)

\* hashlib.sha256().digest_size, the literal 32 of line 66
HashLen == 32
ByteMod == 256

MaxRounds == 2
MaxLength == 34
Passwords == {<<1>>, <<2, 3>>}
Salts == {<<4>>, <<5, 6>>}

RECURSIVE BitXor(_, _)
BitXor(a, b) ==
    IF a = 0 THEN b
    ELSE IF b = 0 THEN a
    ELSE ((a + b) % 2) + 2 * BitXor(a \div 2, b \div 2)

\* xorbytes: map() over two iterables stops at the shorter one
xorbytes(string_a, string_b) ==
    [i \in 1..Min(Len(string_a), Len(string_b)) |-> BitXor(string_a[i], string_b[i])]

\* prf(hsh, data) with hsh = hmac.new(password, None, sha256): HMAC-SHA256 is
\* a library function; it is modelled as some fixed function of key and data
\* that returns HashLen bytes.
prf(hsh, data) ==
    [i \in 1..HashLen |->
        (7 * SumSeq(hsh) + 13 * SumSeq(data) + Len(data) + i) % ByteMod]

\* struct.pack('>I', n) for n < 2^32
PackBE32(n) ==
    <<(n \div (ByteMod * ByteMod * ByteMod)) % ByteMod,
      (n \div (ByteMod * ByteMod)) % ByteMod,
      (n \div ByteMod) % ByteMod,
      n % ByteMod>>

\* a / b on two ints: Python 3's true division, whose result is a float
\* whatever its value
PyTrueDiv(a, b) == [type |-> "float", num |-> a, den |-> b]

\* range(lo, hi): hi must be an int (have __index__); a float raises
\* TypeError: 'float' object cannot be interpreted as an integer
PyRange(lo, hi) ==
    IF hi.type = "int"
    THEN Ok([i \in 1..(IF hi.val > lo THEN hi.val - lo ELSE 0) |-> lo + i - 1])
    ELSE Raise("TypeError")

\* lines 69-71: the inner loop, range(1, rounds), run n more times
RECURSIVE Rounds(_, _, _, _)
Rounds(hsh, index, hval, n) ==
    IF n <= 0 THEN index
    ELSE LET h == prf(hsh, hval)
         IN  Rounds(hsh, xorbytes(index, h), h, n - 1)

\* lines 67-73 for one block of the outer loop
Block(hsh, salt, rounds, block) ==
    LET u1 == prf(hsh, salt \o PackBE32(block + 1))
    IN  Rounds(hsh, u1, u1, rounds - 1)

RECURSIVE Blocks(_, _, _, _)
Blocks(hsh, salt, rounds, blocks) ==
    IF blocks = <<>> THEN <<>>
    ELSE Block(hsh, salt, rounds, Head(blocks))
            \o Blocks(hsh, salt, rounds, Tail(blocks))

HexDigits == <<"0", "1", "2", "3", "4", "5", "6", "7",
               "8", "9", "a", "b", "c", "d", "e", "f">>
HexBase == 16

\* binascii.hexlify: two hex digits per byte
hexlify(bytes) ==
    [i \in 1..(2 * Len(bytes)) |->
        LET b == bytes[(i + 1) \div 2]
        IN  IF i % 2 = 1 THEN HexDigits[(b \div HexBase) + 1]
            ELSE HexDigits[(b % HexBase) + 1]]

HexVal(c) == (CHOOSE d \in 1..HexBase : HexDigits[d] = c) - 1

\* binascii.unhexlify
unhexlify(hex) ==
    [i \in 1..(Len(hex) \div 2) |->
        HexBase * HexVal(hex[2 * i - 1]) + HexVal(hex[2 * i])]

\* pbkdf2(password, salt, rounds, length): the block count handed to range()
\* is (length + 31) / 32.  The loop body is modelled on byte sequences; it
\* runs only when range() accepts its bound.  nblocks is the number of
\* blocks generated.
pbkdf2(password, salt, rounds, length) ==
    LET blocks == PyRange(0, PyTrueDiv(length + 31, HashLen))
    IN  IF blocks.kind # "ok" THEN Raise(blocks.kind)
        ELSE [kind |-> "ok",
              val |-> hexlify(Take(Blocks(password, salt, rounds, blocks.val),
                                   length)),
              nblocks |-> Len(blocks.val)]

\* lastpass_login_hash(username, password, iterations); an exception of
\* either pbkdf2 call propagates
lastpass_login_hash(username, password, iterations) ==
    LET k == pbkdf2(password, username, iterations, HashLen)
    IN  IF k.kind # "ok" THEN k
        ELSE pbkdf2(unhexlify(k.val), password, 1, HashLen)

-----------------------------------------------------------------------------
(* extract_form (helpers.py 27-46)                                          *)
(*                                                                         *)
(* The page is a sequence of tokens: an attribute key="val" (two attribute *)
(* tokens in a row are separated by the single space the pattern asks for) *)
(* or "junk", any other text (a tag boundary, a line break, more spaces).  *)

MaxTokens == 4
AttrVals == {"a", "b"}
Tokens ==
    [key : {"name", "id", "value", "action"}, val : AttrVals]
        \cup {[key |-> "junk", val |-> ""]}

\* re.findall(r'name="([^"]*)" (id="([^"]*)" )?value="([^"]*)"', html) from
\* token i on: the matches left to right, none overlapping; a match is the
\* tuple of the pattern's four groups
RECURSIVE findall_fields(_, _)
findall_fields(h, i) ==
    IF i > Len(h) THEN <<>>
    ELSE IF /\ h[i].key = "name" /\ i + 2 <= Len(h)
            /\ h[i + 1].key = "id" /\ h[i + 2].key = "value"
         THEN <<<<h[i].val, "id", h[i + 1].val, h[i + 2].val>>>>
                  \o findall_fields(h, i + 3)
    ELSE IF h[i].key = "name" /\ i + 1 <= Len(h) /\ h[i + 1].key = "value"
         THEN <<<<h[i].val, "", "", h[i + 1].val>>>> \o findall_fields(h, i + 2)
    ELSE findall_fields(h, i + 1)

\* fields[k] = v of a dict
DictSet(d, k, v) == [x \in (DOMAIN d) \cup {k} |-> IF x = k THEN v ELSE d[x]]

\* lines 33-35: the loop over the matches (match[0] is m[1], match[3] is m[4])
RECURSIVE collect_fields(_, _)
collect_fields(fields, matches) ==
    IF matches = <<>> THEN fields
    ELSE LET m == Head(matches)
         IN  collect_fields(IF Len(m) > 2 THEN DictSet(fields, m[1], m[4])
                            ELSE fields,
                            Tail(matches))

\* re.search(r'action="([^"]*)"', html): the leftmost match, or no match
search_action(h) ==
    LET at == {i \in 1..Len(h) : h[i].key = "action"}
    IN  IF at = {} THEN None
        ELSE Ok(h[CHOOSE i \in at : \A j \in at : i <= j].val)

\* the mutant of extract_form that keeps the last action instead of the first
extract_form_last_action(h) ==
    LET at == {i \in 1..Len(h) : h[i].key = "action"}
    IN  Ok([action |-> IF at = {} THEN ""
                       ELSE h[CHOOSE i \in at : \A j \in at : i >= j].val,
            fields |-> collect_fields(<<>>, findall_fields(h, 1))])

extract_form(h) ==
    LET fields == collect_fields(<<>>, findall_fields(h, 1))
        match == search_action(h)
    IN  Ok([action |-> IF match.kind = "ok" THEN match.val ELSE "",
            fields |-> fields])

InitForm ==
    /\ html \in SeqsUpTo(Tokens, MaxTokens)
    /\ form = None
    /\ IdlePbkdf2 /\ IdleSaml /\ IdlePrompt /\ IdleLogin /\ IdleResponse

CallExtractForm ==
    /\ form.kind = "none"
    /\ form' = extract_form(html)
    /\ UNCHANGED <<pbVars, html, samlVars, promptVars, loginVars, respVars>>

NextForm == CallExtractForm
SpecForm == InitForm /\ [][NextForm]_vars

\* a name/value attribute pair starts at token i
PairAt(h, i) ==
    /\ i \in 1..Len(h) /\ h[i].key = "name"
    /\ \/ i + 1 <= Len(h) /\ h[i + 1].key = "value"
       \/ i + 2 <= Len(h) /\ h[i + 1].key = "id" /\ h[i + 2].key = "value"
PairValue(h, i) == IF h[i + 1].key = "value" THEN h[i + 1].val ELSE h[i + 2].val
ActionsAt(h) == {i \in 1..Len(h) : h[i].key = "action"}

-----------------------------------------------------------------------------
(* get_saml_aws_roles (helpers.py 169-184)                                  *)
(*                                                                         *)
(* The assertion is either not well-formed XML or a document whose         *)
(* saml:AttributeValue nodes are listed in document order, each with the   *)
(* Name of the saml:Attribute it sits under and its text (an element       *)
(* without text has text None in ElementTree: empty = TRUE).               *)

MaxNodes == 2
MaxTextLen == 5
TextChars == {"x", ","}
AttrNames == {"Role", "Other"}
Nodes ==
    [attr : AttrNames, empty : {FALSE}, text : SeqsUpTo(TextChars, MaxTextLen)]
        \cup [attr : AttrNames, empty : {TRUE}, text : {<<>>}]
Assertions ==
    {[wellformed |-> FALSE, nodes |-> <<>>]}
        \cup [wellformed : {TRUE}, nodes : SeqsUpTo(Nodes, MaxNodes)]

\* str.split(sep, maxsplit): at most maxsplit splits, the rest kept whole as
\* the last element
RECURSIVE PySplit(_, _, _)
PySplit(s, sep, maxsplit) ==
    LET at == {i \in 1..Len(s) : s[i] = sep}
    IN  IF maxsplit = 0 \/ at = {} THEN <<s>>
        ELSE LET i == CHOOSE x \in at : \A y \in at : x <= y
             IN  <<SubSeq(s, 1, i - 1)>>
                     \o PySplit(SubSeq(s, i + 1, Len(s)), sep, maxsplit - 1)

\* doc.findall(xpath, namespace): the AttributeValue nodes under the
\* Attribute whose Name is the AWS role attribute, in document order
findall_roles(doc) == SelectSeq(doc.nodes, LAMBDA n : n.attr = "Role")

get_saml_aws_roles(a) ==
    IF ~a.wellformed THEN Raise("ParseError")
    ELSE LET attribs == findall_roles(a)
         IN  IF \E i \in 1..Len(attribs) : attribs[i].empty
             THEN Raise("AttributeError")
             ELSE Ok([i \in 1..Len(attribs) |-> PySplit(attribs[i].text, ",", 2)])

InitSaml ==
    /\ assertion \in Assertions
    /\ roles_out = None
    /\ IdlePbkdf2 /\ IdleForm /\ IdlePrompt /\ IdleLogin /\ IdleResponse

CallGetRoles ==
    /\ roles_out.kind = "none"
    /\ roles_out' = get_saml_aws_roles(assertion)
    /\ UNCHANGED <<pbVars, formVars, assertion, promptVars, loginVars, respVars>>

NextSaml == CallGetRoles
SpecSaml == InitSaml /\ [][NextSaml]_vars

\* C4: when role extraction succeeds the role list is never empty: an
\* assertion that parses but has no AttributeValue under the role Attribute
\* is reported as a failure.
C4_NeverEmpty ==
    roles_out.kind = "ok" => Len(roles_out.val) >= 1

Commas(text) == Cardinality({i \in 1..Len(text) : text[i] = ","})

\* C7: one entry per AttributeValue node under the role Attribute, in
\* document order, each entry exactly the pair (text before the first comma,
\* text between the first and the second comma); nothing beyond the second
\* comma appears in the entry.
C7_ExactPairs ==
    roles_out.kind = "ok" =>
        LET attribs == SelectSeq(assertion.nodes, LAMBDA n : n.attr = "Role")
        IN  /\ Len(roles_out.val) = Len(attribs)
            /\ \A i \in 1..Len(attribs) :
                  Commas(attribs[i].text) >= 1 =>
                      LET all == PySplit(attribs[i].text, ",", Len(attribs[i].text))
                      IN  roles_out.val[i] = <<all[1], all[2]>>

-----------------------------------------------------------------------------
(* prompt_for_role (helpers.py 201-221)                                     *)
(*                                                                         *)
(* The frame blocks in input(); every line the operator types is a step.   *)

MaxRoles == 3
MaxReads == 2
MaxInputLen == 2
InputChars == {"1", "3", "a", "-"}
RolePool == {<<"roleA", "idp">>, <<"roleB", "idp">>}

\* seq[i] of a Python list: 0-based, a negative index counts from the end,
\* anything else raises IndexError
PyIndex(seq, i) ==
    IF 0 <= i /\ i < Len(seq) THEN Ok(seq[i + 1])
    ELSE IF i < 0 /\ 0 - i <= Len(seq) THEN Ok(seq[Len(seq) + i + 1])
    ELSE Raise("IndexError")

\* the loop test of line 215
KeepAsking(choice, n) == choice < 1 \/ choice > n + 1

\* the mutant of prompt_for_role_enter that lists the roles before it looks
\* at their number
prompt_for_role_enter_always_list ==
    /\ pr.pc = "idle"
    /\ pr' = [pr EXCEPT !.pc = IF Len(roles) = 1 THEN "done" ELSE "input",
                        !.printed = 1 + Len(roles),
                        !.result = IF Len(roles) = 1 THEN Ok(roles[1]) ELSE None]
    /\ UNCHANGED <<pbVars, formVars, samlVars, roles, loginVars, respVars>>

\* lines 203-215: a single role is returned at once; otherwise the header
\* and one line per role are printed, choice is 0 and the loop is entered
prompt_for_role_enter ==
    /\ pr.pc = "idle"
    /\ IF Len(roles) = 1
       THEN pr' = [pr EXCEPT !.pc = "done", !.result = Ok(roles[1])]
       ELSE pr' = [pr EXCEPT !.pc = "input", !.printed = 1 + Len(roles),
                             !.choice = 0]
    /\ UNCHANGED <<pbVars, formVars, samlVars, roles, loginVars, respVars>>

\* lines 215-221: one input() line; int() of it, or 0 on ValueError; then the
\* loop test, and roles[choice - 1] once the loop is left
prompt_for_role_input(line) ==
    /\ pr.pc = "input"
    /\ pr.reads < MaxReads
    /\ LET parsed == PyInt(line)
           choice == IF parsed.kind = "ok" THEN parsed.val ELSE 0
       IN  IF KeepAsking(choice, Len(roles))
           THEN pr' = [pr EXCEPT !.choice = choice, !.reads = @ + 1]
           ELSE pr' = [pr EXCEPT !.choice = choice, !.reads = @ + 1,
                                 !.pc = "done",
                                 !.result = PyIndex(roles, choice - 1)]
    /\ UNCHANGED <<pbVars, formVars, samlVars, roles, loginVars, respVars>>

InitPrompt ==
    /\ roles \in SeqsUpTo(RolePool, MaxRoles)
    /\ pr = [pc |-> "idle", choice |-> 0, printed |-> 0, reads |-> 0, result |-> None]
    /\ IdlePbkdf2 /\ IdleForm /\ IdleSaml /\ IdleLogin /\ IdleResponse

NextPrompt ==
    \/ prompt_for_role_enter
    \/ \E line \in SeqsUpTo(InputChars, MaxInputLen) : prompt_for_role_input(line)
SpecPrompt == InitPrompt /\ [][NextPrompt]_vars

\* C3: with n >= 2 roles prompt_for_role returns only for an input k with
\* 1 <= k <= n, then returns roles[k-1], and never ends with an error.
C3_ValidChoiceOnly ==
    (pr.pc = "done" /\ Len(roles) >= 2) =>
        /\ pr.result.kind = "ok"
        /\ 1 <= pr.choice /\ pr.choice <= Len(roles)
        /\ pr.result.val = roles[pr.choice]

\* C8: with exactly one role prompt_for_role returns that role, reads no
\* operator input and prints nothing.
C8_SingleRoleNoPrompt ==
    Len(roles) = 1 =>
        /\ pr.pc \in {"idle", "done"}
        /\ pr.printed = 0 /\ pr.reads = 0
        /\ pr.pc = "done" => pr.result = Ok(roles[1])

\* prompt_for_role has returned on a one-role list
C8_Witness == Len(roles) = 1 /\ pr.pc = "done" /\ pr.result.kind = "ok"

-----------------------------------------------------------------------------
(* pbkdf2 called once on arguments drawn from bounded sets                  *)

InitPbkdf2 ==
    /\ pb_args \in [password : Passwords, salt : Salts,
                    rounds : 0..MaxRounds, length : 0..MaxLength]
    /\ pb_out = None
    /\ IdleForm /\ IdleSaml /\ IdlePrompt /\ IdleLogin /\ IdleResponse

CallPbkdf2 ==
    /\ pb_out.kind = "none"
    /\ pb_out' = pbkdf2(pb_args.password, pb_args.salt, pb_args.rounds,
                        pb_args.length)
    /\ UNCHANGED <<pb_args, formVars, samlVars, promptVars, loginVars, respVars>>

NextPbkdf2 == CallPbkdf2
SpecPbkdf2 == InitPbkdf2 /\ [][NextPbkdf2]_vars

\* C5: for rounds >= 1 and length >= 1 pbkdf2 generates exactly
\* ceil(length / 32) blocks of 32 bytes and returns their concatenation
\* truncated to exactly length bytes (hex-encoded by the final hexlify).
C5_ExactLength ==
    (pb_out.kind # "none" /\ pb_args.rounds >= 1 /\ pb_args.length >= 1)
        => /\ pb_out.kind = "ok"
           /\ pb_out.nblocks = (pb_args.length + HashLen - 1) \div HashLen
           /\ Len(unhexlify(pb_out.val)) = pb_args.length

\* C6: pbkdf2 fails with an invalid-parameter error, and derives no key,
\* whenever rounds < 1 or length < 1.
C6_InvalidParameter ==
    (pb_out.kind # "none" /\ (pb_args.rounds < 1 \/ pb_args.length < 1))
        => pb_out.kind = "InvalidParameterError"

-----------------------------------------------------------------------------
(* lastpass_iterations and lastpass_login (helpers.py 85-134)               *)
(*                                                                         *)
(* The caller invokes lastpass_login, and may invoke it again (with an     *)
(* OTP) once an invocation has ended.  An invocation blocks in             *)
(* session.post; each answer of the server is a step.  The login request   *)
(* is posted only when lastpass_login_hash returns a hash; what the call   *)
(* does with the answer of login.php is the next section.                  *)

DefaultIterations == 5000
HttpOk == 200
HttpError == 400
MaxCalls == 2
MaxBodyLen == 2
BodyChars == {"1", "7", " ", "-", "a"}
Statuses == {HttpOk, 404, 500}
Usernames == {<<7>>, <<8, 9>>}
Otps == {"none", "123456"}

\* lines 97-100 of lastpass_iterations on the answer of iterations.php:
\* int() of the body on status 200, otherwise the default
lastpass_iterations(status, body) ==
    IF status = HttpOk THEN PyInt(body) ELSE Ok(DefaultIterations)

\* the mutant of hash_iterations that hashes with the default count whatever
\* the discovery returned
hash_iterations_default(iterations) == DefaultIterations

\* the iteration count line 114 hands to lastpass_login_hash
hash_iterations(iterations) == iterations

\* lines 105-106 and 87-95: the call starts and posts the discovery request
lastpass_login_call(otp) ==
    /\ lg.pc \in {"idle", "raised"}
    /\ lg.calls < MaxCalls
    /\ lg' = [lg EXCEPT !.pc = "await_iterations", !.calls = @ + 1, !.otp = otp,
                        !.answer = [status |-> 0, body |-> <<>>],
                        !.discovered = None, !.hashed = <<>>, !.result = None]
    /\ wire' = Append(wire, [inv |-> lg.calls + 1, page |-> "iterations.php",
                             email |-> lg.username])
    /\ UNCHANGED <<pbVars, formVars, samlVars, promptVars, respVars>>

\* lines 97-100 and 108-122: the discovery answer arrives; the iteration
\* count is taken from it, the hash is derived, the parameters are built and
\* the login request is posted.  An exception of int() or of
\* lastpass_login_hash ends the call.  answer, discovered and hashed record,
\* for the invocation under way, the answer received, what
\* lastpass_iterations made of it and the counts hashes were derived with.
lastpass_iterations_answer(status, body) ==
    /\ lg.pc = "await_iterations"
    /\ LET iterations == lastpass_iterations(status, body)
           seen == [lg EXCEPT !.answer = [status |-> status, body |-> body],
                              !.discovered = iterations]
       IN  IF iterations.kind # "ok"
           THEN /\ lg' = [seen EXCEPT !.pc = "raised", !.result = iterations]
                /\ wire' = wire
           ELSE LET count == hash_iterations(iterations.val)
                    hash == lastpass_login_hash(lg.username, lg.password, count)
                    hashed == [seen EXCEPT !.hashed = Append(@, count)]
                IN  IF hash.kind # "ok"
                    THEN /\ lg' = [hashed EXCEPT !.pc = "raised", !.result = hash]
                         /\ wire' = wire
                    ELSE /\ lg' = [hashed EXCEPT !.pc = "await_login"]
                         /\ wire' = Append(wire,
                                [inv |-> lg.calls, page |-> "login.php",
                                 method |-> "web", xml |-> "1",
                                 username |-> lg.username, hash |-> hash.val,
                                 iterations |-> iterations.val, otp |-> lg.otp])
    /\ UNCHANGED <<pbVars, formVars, samlVars, promptVars, respVars>>

InitLogin ==
    /\ lg \in [pc : {"idle"}, calls : {0}, username : Usernames,
               password : Passwords, otp : {"none"},
               answer : {[status |-> 0, body |-> <<>>]},
               discovered : {None}, hashed : {<<>>}, result : {None}]
    /\ wire = <<>>
    /\ IdlePbkdf2 /\ IdleForm /\ IdleSaml /\ IdlePrompt /\ IdleResponse

NextLogin ==
    \/ \E otp \in Otps : lastpass_login_call(otp)
    \/ \E status \in Statuses, body \in SeqsUpTo(BodyChars, MaxBodyLen) :
          lastpass_iterations_answer(status, body)
SpecLogin == InitLogin /\ [][NextLogin]_vars

\* what the discovery is to return on an answer
ExpectedIterations(status, body) ==
    LET n == PyInt(body)
    IN  IF status = HttpOk /\ n.kind = "ok" THEN n.val ELSE DefaultIterations

\* C2: iteration discovery never fails the login: on status 200 with an
\* integer body the count is that integer; on any other status, or a body
\* that is no integer, the count is the default 5000 and no error is raised.
C2_DiscoveryNeverFails ==
    lg.discovered.kind # "none" =>
        lg.discovered = Ok(ExpectedIterations(lg.answer.status, lg.answer.body))

Requests(inv, page) ==
    {j \in 1..Len(wire) : wire[j].inv = inv /\ wire[j].page = page}

-----------------------------------------------------------------------------
(* lastpass_login on the answer of login.php (helpers.py 123-134)           *)
(*                                                                         *)
(* The answer has a status and a body; a well-formed body is a root        *)
(* element with children in document order.  An <error> child has a cause  *)
(* and a message attribute, "None" when the attribute is absent.  The      *)
(* protocol's answer has at most one <error> child.                        *)

MaxChildren == 3
Causes == {"googleauthrequired", "unknownpassword", "None"}
Messages == {"Invalid password", "None"}
Elements ==
    [tag : {"error"}, cause : Causes, message : Messages]
        \cup {[tag |-> "ok", cause |-> "None", message |-> "None"]}
ErrorsIn(children) == {i \in 1..Len(children) : children[i].tag = "error"}
Responses ==
    [status : {HttpOk, 500}, wellformed : {FALSE}, children : {<<>>}]
        \cup {r \in [status : {HttpOk, 500}, wellformed : {TRUE},
                     children : SeqsUpTo(Elements, MaxChildren)] :
                Cardinality(ErrorsIn(r.children)) <= 1}

\* doc.find('error'): the first child of the root with that tag, or None
find(children, tag) ==
    LET at == {i \in 1..Len(children) : children[i].tag = tag}
    IN  IF at = {} THEN None
        ELSE Ok(children[CHOOSE i \in at : \A j \in at : i <= j])

\* the mutant of login_answer that takes every <error> for an MFA request
login_answer_any_error_is_mfa(r) ==
    IF r.status >= HttpError THEN Raise("HTTPError")
    ELSE IF ~r.wellformed THEN Raise("ParseError")
    ELSE IF find(r.children, "error").kind = "none" THEN Ok("None")
    ELSE [kind |-> "MfaRequiredException", message |-> <<"Need MFA for this login">>]

\* lines 123-134: raise_for_status, the parse, and the <error> element
login_answer(r) ==
    IF r.status >= HttpError THEN Raise("HTTPError")
    ELSE IF ~r.wellformed THEN Raise("ParseError")
    ELSE LET error == find(r.children, "error")
         IN  IF error.kind = "none" THEN Ok("None")
             ELSE IF error.val.cause = "googleauthrequired"
             THEN [kind |-> "MfaRequiredException",
                   message |-> <<"Need MFA for this login">>]
             ELSE [kind |-> "ValueError",
                   message |-> <<"Could not login to lastpass: ", error.val.message>>]

InitResponse ==
    /\ response \in Responses
    /\ outcome = None
    /\ IdlePbkdf2 /\ IdleForm /\ IdleSaml /\ IdlePrompt /\ IdleLogin

lastpass_login_answer ==
    /\ outcome.kind = "none"
    /\ outcome' = login_answer(response)
    /\ UNCHANGED <<pbVars, formVars, samlVars, promptVars, loginVars, response>>

NextResponse == lastpass_login_answer
SpecResponse == InitResponse /\ [][NextResponse]_vars

Parsed(r) == r.status < HttpError /\ r.wellformed

=============================================================================
